---- MODULE Spec2Model ----
(***************************************************************************)
(* Model of mcp_server.py: a FastMCP server with two tools, search and     *)
(* fetch, and the __main__ block that starts it.                           *)
(*                                                                         *)
(* Python strings are modelled as sequences of one-character strings, so   *)
(* that concatenation, strip(), title(), str(int) and substring tests are  *)
(* computed character by character.                                        *)
(***************************************************************************)
EXTENDS Integers, Sequences, FiniteSets, TLC

VARIABLES
    pc,         \* position of the __main__ block
    exc,        \* the exception server.run raised: its class and str(e)
    hashOf,     \* this process's str hash: hash randomisation fixes it at start-up
    log,        \* records emitted through logger, oldest first
    replies     \* outcomes of the tool calls delivered to the client so far

vars == <<pc, exc, hashOf, log, replies>>

----------------------------------------------------------------------------
(* Bounds of the model.                                                    *)

\* Tool calls are accepted while the log holds fewer than MaxLog records.
MaxLog == 5

----------------------------------------------------------------------------
(* String literals of the source.                                          *)

MockPrefix ==
    <<"m", "o", "c", "k", "@", "@", "@">>
TitlePrefix ==
    <<"N", "e", "w", "s", " ", "A", "r", "t", "i", "c", "l", "e", " ", "o", "n", " ">>
SnippetPrefix ==
    <<"F", "u", "l", "l", " ", "t", "e", "x", "t", " ", "a", "b", "o", "u", "t", " ",
      "t", "h", "e", " ", "t", "o", "p", "i", "c", ":", " ">>
MockUrlPrefix ==
    <<"h", "t", "t", "p", "s", ":", "/", "/", "m", "o", "c", "k", "u", "p", "-", "u",
      "r", "l", ".", "o", "r", "g", "/">>
RetrievedTitle ==
    <<"R", "e", "t", "r", "i", "e", "v", "e", "d", " ", "D", "o", "c", "u", "m", "e",
      "n", "t">>
ContentPrefix ==
    <<"F", "u", "l", "l", " ", "d", "o", "c", "u", "m", "e", "n", "t", " ", "c", "o",
      "n", "t", "e", "n", "t", " ", "f", "o", "r", " ", "I", "D", ":", " ">>
StorageUrlPrefix ==
    <<"h", "t", "t", "p", "s", ":", "/", "/", "p", "l", "a", "t", "f", "o", "r", "m",
      ".", "o", "p", "e", "n", "a", "i", ".", "c", "o", "m", "/", "s", "t", "o", "r",
      "a", "g", "e", "/", "f", "i", "l", "e", "s", "/">>
MockupPress ==
    <<"M", "o", "c", "k", "u", "p", " ", "P", "r", "e", "s", "s">>
Somebody ==
    <<"S", "o", "m", "e", "b", "o", "d", "y">>
IdRequiredMsg ==
    <<"D", "o", "c", "u", "m", "e", "n", "t", " ", "I", "D", " ", "i", "s", " ", "r",
      "e", "q", "u", "i", "r", "e", "d">>
FetchingPrefix ==
    <<"F", "e", "t", "c", "h", "i", "n", "g", " ", "c", "o", "n", "t", "e", "n", "t",
      " ", "f", "o", "r", " ", "f", "i", "l", "e", " ", "I", "D", ":", " ">>
FetchedPrefix ==
    <<"F", "e", "t", "c", "h", "e", "d", " ", "f", "i", "l", "e", ":", " ">>
SearchReturnedPrefix ==
    <<"s", "e", "a", "r", "c", "h", " ", "r", "e", "t", "u", "r", "n", "e", "d", " ">>
ResultsSuffix ==
    <<" ", "r", "e", "s", "u", "l", "t", "s">>
StartingMsg ==
    <<"S", "t", "a", "r", "t", "i", "n", "g", " ", "M", "C", "P", " ", "s", "e", "r",
      "v", "e", "r", " ", "o", "n", " ", "0", ".", "0", ".", "0", ".", "0", ":", "8",
      "0", "0", "0", " ", "w", "i", "t", "h", " ", "h", "t", "t", "p", " ", "t", "r",
      "a", "n", "s", "p", "o", "r", "t">>
StoppedMsg ==
    <<"S", "e", "r", "v", "e", "r", " ", "s", "t", "o", "p", "p", "e", "d", " ", "b",
      "y", " ", "u", "s", "e", "r">>
ServerErrorPrefix ==
    <<"S", "e", "r", "v", "e", "r", " ", "e", "r", "r", "o", "r", ":", " ">>

----------------------------------------------------------------------------
(* Python built-ins used by the handlers.                                  *)

LowerLetters ==
    <<"a", "b", "c", "d", "e", "f", "g", "h", "i", "j", "k", "l", "m", "n", "o", "p",
      "q", "r", "s", "t", "u", "v", "w", "x", "y", "z">>
UpperLetters ==
    <<"A", "B", "C", "D", "E", "F", "G", "H", "I", "J", "K", "L", "M", "N", "O", "P",
      "Q", "R", "S", "T", "U", "V", "W", "X", "Y", "Z">>
Digits ==
    <<"0", "1", "2", "3", "4", "5", "6", "7", "8", "9">>

\* The characters str.strip() removes.
Whitespace == {" ", "\t", "\n", "\r"}

Range(s) == {s[i] : i \in DOMAIN s}

IsCased(c) == c \in Range(LowerLetters) \cup Range(UpperLetters)

IndexIn(c, letters) == CHOOSE i \in DOMAIN letters : letters[i] = c

\* str.upper() and str.lower() of one character.
ToUpper(c) == IF c \in Range(LowerLetters) THEN UpperLetters[IndexIn(c, LowerLetters)] ELSE c
ToLower(c) == IF c \in Range(UpperLetters) THEN LowerLetters[IndexIn(c, UpperLetters)] ELSE c

\* str.strip(): drop leading and trailing whitespace.
RECURSIVE LStrip(_)
LStrip(s) == IF s # <<>> /\ Head(s) \in Whitespace THEN LStrip(Tail(s)) ELSE s

RECURSIVE RStrip(_)
RStrip(s) ==
    IF s # <<>> /\ s[Len(s)] \in Whitespace THEN RStrip(SubSeq(s, 1, Len(s) - 1)) ELSE s

Strip(s) == RStrip(LStrip(s))

\* str.title(): the first letter of every run of letters in upper case,
\* the other letters of the run in lower case, everything else unchanged.
RECURSIVE TitleFrom(_, _)
TitleFrom(s, prevCased) ==
    IF s = <<>> THEN <<>>
    ELSE LET c == Head(s)
         IN  IF IsCased(c)
             THEN <<IF prevCased THEN ToLower(c) ELSE ToUpper(c)>> \o TitleFrom(Tail(s), TRUE)
             ELSE <<c>> \o TitleFrom(Tail(s), FALSE)

Title(s) == TitleFrom(s, FALSE)

\* str(n) for an integer n >= 0: its decimal digits, no padding.
RECURSIVE ToStr(_)
ToStr(n) ==
    IF n < 0 THEN <<"-">> \o ToStr(0 - n)
    ELSE IF n < 10 THEN <<Digits[n + 1]>>
    ELSE ToStr(n \div 10) \o <<Digits[(n % 10) + 1]>>

\* Variant: the remainder truncates towards zero, as C's % does.
PyMod_Truncating(x, m) == IF x < 0 THEN 0 - ((0 - x) % m) ELSE x % m

\* Python's x % m for m > 0: the result has the sign of m, so it is in 0..m-1.
PyMod(x, m) == x % m

----------------------------------------------------------------------------
(* Inputs.                                                                 *)

Cats == <<"c", "a", "t", "s">>
PaddedA == <<" ", "a", " ">>
Doc1 == <<"d", "o", "c", "1">>

\* Queries a client sends to search: empty, whitespace only, plain, padded.
Queries == {<<>>, <<" ", "\t">>, Cats, PaddedA}

\* Ids a client sends to fetch without having searched first.
FetchIds == {<<>>, <<" ">>, Doc1}

\* Values hash() may give a query: negative, small, larger than the modulus.
HashValues == {-12345, 7, 123456}

\* No exception has been raised.
NoException == [class |-> "None", msg |-> <<>>]

\* Classes of the exceptions server.run may raise that derive from Exception.
ExceptionClasses == {"OSError", "RuntimeError"}

BindFailure == [class |-> "OSError", msg |-> <<"b", "i", "n", "d">>]

\* Exceptions server.run may raise: a bind failure, a crash, an interrupt from
\* the keyboard, and an exit request (SystemExit derives from BaseException
\* only, as KeyboardInterrupt does).
RunErrors ==
    {BindFailure,
     [class |-> "RuntimeError", msg |-> <<"c", "r", "a", "s", "h">>],
     [class |-> "KeyboardInterrupt", msg |-> <<>>],
     [class |-> "SystemExit", msg |-> <<"1">>]}

----------------------------------------------------------------------------
(* The tools registered by create_server.                                  *)

\* create_server builds the FastMCP object and the two handlers and nothing
\* else: the server holds no documents.
DocumentStore == {}

HashModulus == 10000

\* mockup_id = f"mock@@@{hash(query) % 10000}"
MockupId(query) == MockPrefix \o ToStr(PyMod(hashOf[query], HashModulus))

\* The result dictionary search builds for a non-blank query.
SearchResult(query) ==
    [id    |-> MockupId(query),
     title |-> TitlePrefix \o Title(query),
     text  |-> SnippetPrefix \o query,
     url   |-> MockUrlPrefix \o MockupId(query)]

\* Variant: only the empty query is rejected, the strip() test is missing.
IsRejectedQuery_NoStrip(query) == Len(query) = 0

\* `not query or not query.strip()`
IsRejectedQuery(query) == Len(query) = 0 \/ Len(Strip(query)) = 0

\* The results list search returns.
SearchResults(query) ==
    IF IsRejectedQuery(query) THEN <<>> ELSE <<SearchResult(query)>>

\* The records search emits through logger.
SearchLog(query) ==
    IF IsRejectedQuery(query) THEN <<>>
    ELSE <<[level |-> "INFO",
            msg   |-> SearchReturnedPrefix \o ToStr(Len(SearchResults(query)))
                          \o ResultsSuffix]>>

\* What a call of search(query) gives its caller.
SearchOutcome(query) == [kind |-> "return", value |-> [results |-> SearchResults(query)]]

\* Variant: no id is rejected.
IsRejectedId_Never(id) == FALSE

\* Variant: the id is stripped before the test, as search does with its query.
IsRejectedId_Stripped(id) == Len(Strip(id)) = 0

\* `not id`
IsRejectedId(id) == Len(id) = 0

\* Variant: the text carries the number of log records written so far.
FetchDocument_Numbered(id) ==
    [id       |-> id,
     title    |-> RetrievedTitle,
     text     |-> ContentPrefix \o id \o <<" ">> \o ToStr(Len(log)),
     url      |-> StorageUrlPrefix \o id,
     metadata |-> [source |-> MockupPress, retrieved_by |-> Somebody]]

\* The result dictionary fetch builds.
FetchDocument(id) ==
    [id       |-> id,
     title    |-> RetrievedTitle,
     text     |-> ContentPrefix \o id,
     url      |-> StorageUrlPrefix \o id,
     metadata |-> [source |-> MockupPress, retrieved_by |-> Somebody]]

\* Variant: an id that names no stored document is rejected as well.
FetchOutcome_StoreLookup(id) ==
    IF Len(id) = 0 \/ id \notin {d.id : d \in DocumentStore}
    THEN [kind |-> "raise", type |-> "ValueError", message |-> IdRequiredMsg]
    ELSE [kind |-> "return",
          value |-> [id       |-> id,
                     title    |-> RetrievedTitle,
                     text     |-> ContentPrefix \o id,
                     url      |-> StorageUrlPrefix \o id,
                     metadata |-> [source |-> MockupPress, retrieved_by |-> Somebody]]]

\* What a call of fetch(id) gives its caller.
FetchOutcome(id) ==
    IF IsRejectedId(id)
    THEN [kind |-> "raise", type |-> "ValueError", message |-> IdRequiredMsg]
    ELSE [kind |-> "return", value |-> FetchDocument(id)]

\* The records fetch emits through logger.
FetchLog(id) ==
    IF IsRejectedId(id) THEN <<>>
    ELSE <<[level |-> "INFO", msg |-> FetchingPrefix \o id],
           [level |-> "INFO", msg |-> FetchedPrefix \o id]>>

----------------------------------------------------------------------------
(* State machine.                                                          *)

\* hash("") is 0 in every process; the other values depend on the hash seed.
Init ==
    /\ pc = "start"
    /\ exc = NoException
    /\ hashOf \in {h \in [Queries -> HashValues \cup {0}] :
                      /\ h[<<>>] = 0
                      /\ \A q \in Queries \ {<<>>} : h[q] \in HashValues}
    /\ log = <<>>
    /\ replies = {}

\* logger.info("Starting MCP server ...") and entry into the try block.
Start ==
    /\ pc = "start"
    /\ log' = Append(log, [level |-> "INFO", msg |-> StartingMsg])
    /\ pc' = "run"
    /\ UNCHANGED <<exc, hashOf, replies>>

\* server.run binds the listener and starts to serve.
Bind ==
    /\ pc = "run"
    /\ pc' = "serving"
    /\ UNCHANGED <<exc, hashOf, log, replies>>

\* The except clause of the try statement that handles an exception of class
\* c: the first clause whose class c derives from; none, and the exception
\* leaves the script uncaught, which terminates the process.
ClauseFor(c) ==
    IF c = "KeyboardInterrupt" THEN "except_KeyboardInterrupt"
    ELSE IF c \in ExceptionClasses THEN "except_Exception"
    ELSE "terminated"

\* server.run raises e, while binding or while serving.
RunRaises(e) ==
    /\ pc \in {"run", "serving"}
    /\ pc' = ClauseFor(e.class)
    /\ exc' = e
    /\ UNCHANGED <<hashOf, log, replies>>

\* server.run returns: the try statement and the script end.
RunReturns ==
    /\ pc = "serving"
    /\ pc' = "exited"
    /\ UNCHANGED <<exc, hashOf, log, replies>>

\* except KeyboardInterrupt: log and fall off the end of the script.
ExceptKeyboardInterrupt ==
    /\ pc = "except_KeyboardInterrupt"
    /\ log' = Append(log, [level |-> "INFO", msg |-> StoppedMsg])
    /\ pc' = "exited"
    /\ UNCHANGED <<exc, hashOf, replies>>

\* Variant: the error is logged but not re-raised, so the script ends normally.
ExceptException_Swallowed ==
    /\ pc = "except_Exception"
    /\ log' = Append(log, [level |-> "ERROR", msg |-> ServerErrorPrefix \o exc.msg])
    /\ pc' = "exited"
    /\ UNCHANGED <<exc, hashOf, replies>>

\* except Exception as e: log the error and re-raise, which ends the process.
ExceptException ==
    /\ pc = "except_Exception"
    /\ log' = Append(log, [level |-> "ERROR", msg |-> ServerErrorPrefix \o exc.msg])
    /\ pc' = "terminated"
    /\ UNCHANGED <<exc, hashOf, replies>>

\* A client calls the search tool.
Search(query) ==
    /\ pc = "serving"
    /\ Len(log) + Len(SearchLog(query)) <= MaxLog
    /\ log' = log \o SearchLog(query)
    /\ replies' = replies \cup {[op |-> "search", arg |-> query, outcome |-> SearchOutcome(query)]}
    /\ UNCHANGED <<pc, exc, hashOf>>

\* A client calls the fetch tool.
Fetch(id) ==
    /\ pc = "serving"
    /\ Len(log) + Len(FetchLog(id)) <= MaxLog
    /\ log' = log \o FetchLog(id)
    /\ replies' = replies \cup {[op |-> "fetch", arg |-> id, outcome |-> FetchOutcome(id)]}
    /\ UNCHANGED <<pc, exc, hashOf>>

\* The ids found in the search results the client has received.
ReturnedIds ==
    {r.outcome.value.results[1].id :
        r \in {x \in replies : x.op = "search" /\ x.outcome.kind = "return"
                                 /\ x.outcome.value.results # <<>>}}

Next ==
    \/ Start
    \/ Bind
    \/ \E e \in RunErrors : RunRaises(e)
    \/ RunReturns
    \/ ExceptKeyboardInterrupt
    \/ ExceptException
    \/ \E query \in Queries : Search(query)
    \/ \E id \in FetchIds \cup ReturnedIds : Fetch(id)

Spec == Init /\ [][Next]_vars

\* An except clause that has been entered runs to its end.
FairSpec == Spec /\ WF_vars(ExceptException) /\ WF_vars(ExceptKeyboardInterrupt)

----------------------------------------------------------------------------
(* Vocabulary of the properties.                                           *)

SearchReplies == {r \in replies : r.op = "search"}
FetchReplies == {r \in replies : r.op = "fetch"}

Returned(r) == r.outcome.kind = "return"
Raised(r) == r.outcome.kind = "raise"

\* Empty, or made of whitespace only.
IsBlank(s) == \A i \in DOMAIN s : s[i] \in Whitespace

StartsWith(s, prefix) ==
    Len(s) >= Len(prefix) /\ SubSeq(s, 1, Len(prefix)) = prefix

EndsWith(s, suffix) ==
    Len(s) >= Len(suffix) /\ SubSeq(s, Len(s) - Len(suffix) + 1, Len(s)) = suffix

\* s occurs in t as a contiguous part.
IsExcerptOf(s, t) ==
    \E i \in 0..(Len(t) - Len(s)) : SubSeq(t, i + 1, i + Len(s)) = s

IsDecimal(s) == s # <<>> /\ \A i \in DOMAIN s : s[i] \in Range(Digits)

\* The number a string of decimal digits denotes.
RECURSIVE DecimalValue(_)
DecimalValue(s) ==
    IF s = <<>> THEN 0
    ELSE 10 * DecimalValue(SubSeq(s, 1, Len(s) - 1)) + (IndexIn(s[Len(s)], Digits) - 1)

StoredIds == {d.id : d \in DocumentStore}

\* Ids that appear in some search reply.
SearchedIds ==
    UNION {{r.outcome.value.results[i].id : i \in DOMAIN r.outcome.value.results} :
              r \in SearchReplies}

----------------------------------------------------------------------------
(* Properties.                                                             *)

\* C1: every search with an empty or whitespace-only query returns, without
\* raising, a response whose results sequence is empty, whatever was called
\* before.
C1_BlankQueryEmptyResults ==
    \A r \in SearchReplies :
        IsBlank(r.arg) => Returned(r) /\ r.outcome.value.results = <<>>

\* A whitespace-only search has been answered after a search that gave a result
\* and a fetch.
C1_Witness ==
    /\ \E r \in SearchReplies : r.arg = <<" ", "\t">>
    /\ \E r \in SearchReplies : r.arg = Cats
    /\ FetchReplies # {}

\* C2: fetch with the empty id fails with the invalid-argument error
\* (ValueError "Document ID is required"), gives no document, and fails before
\* the handler starts to assemble one (nothing is logged for the empty id).
C2_EmptyIdInvalidArgument ==
    /\ \A r \in FetchReplies :
          r.arg = <<>> =>
              /\ Raised(r)
              /\ r.outcome.type = "ValueError"
              /\ r.outcome.message = IdRequiredMsg
              /\ "value" \notin DOMAIN r.outcome
    /\ \A i \in DOMAIN log : log[i].msg \notin {FetchingPrefix, FetchedPrefix}

\* fetch("") has been answered, after other calls.
C2_Witness ==
    /\ \E r \in FetchReplies : r.arg = <<>>
    /\ \E r \in FetchReplies : r.arg = Doc1

\* C3: every fetch of an id that appears in a search result returns a
\* document whose id is that id.
C3_SearchedIdsFetchable ==
    \A r \in FetchReplies :
        r.arg \in SearchedIds => Returned(r) /\ r.outcome.value.id = r.arg

\* An id found by search has been fetched.
C3_Witness == \E r \in FetchReplies : r.arg \in SearchedIds

\* C4: fetch with a non-empty id that names no stored document fails
\* (NotFound) and returns no document; the server stores none, so fetch("doc1")
\* fails.
C4_UnknownIdNotFound ==
    \A r \in FetchReplies :
        (r.arg # <<>> /\ r.arg \notin StoredIds) => Raised(r)

\* C5: every result search returns identifies a stored document; the server
\* stores none, so every search returns no results.
C5_NoFabricatedResults ==
    \A r \in SearchReplies :
        \A i \in DOMAIN r.outcome.value.results :
            r.outcome.value.results[i].id \in StoredIds

\* C6: no step changes what the handlers read besides their argument (the
\* process's hash), and after every step two calls of the same tool with the
\* same argument have the same outcome; so repeated fetches of an id give
\* identical content.
C6_StatelessReadOnly ==
    [][/\ hashOf' = hashOf
       /\ \A r1, r2 \in replies' :
             (r1.op = r2.op /\ r1.arg = r2.arg) => r1.outcome = r2.outcome]_vars

\* fetch("doc1") has run twice, with a search in between or around, and one
\* outcome is on record for it.
C6_Witness ==
    /\ Cardinality({i \in DOMAIN log : log[i].msg = FetchedPrefix \o Doc1}) = 2
    /\ Cardinality({r \in FetchReplies : r.arg = Doc1}) = 1
    /\ SearchReplies # {}

\* C7: the text of every search result occurs as a contiguous part of the
\* text fetch returns for the result's id.
C7_SnippetIsExcerpt ==
    \A r \in SearchReplies :
        \A i \in DOMAIN r.outcome.value.results :
            \A f \in FetchReplies :
                (f.arg = r.outcome.value.results[i].id /\ Returned(f)) =>
                    IsExcerptOf(r.outcome.value.results[i].text, f.outcome.value.text)

\* The last log record is the error record of the exception server.run raised.
ErrorLogged ==
    /\ log # <<>>
    /\ log[Len(log)] = [level |-> "ERROR", msg |-> ServerErrorPrefix \o exc.msg]

\* C8 as stated: a process that terminated because server.run raised an
\* exception other than KeyboardInterrupt has logged the error last.
C8_EveryFailureLogged ==
    (pc = "terminated" /\ exc.class # "KeyboardInterrupt") => ErrorLogged

\* C8, amended: whenever server.run raises an exception other than
\* KeyboardInterrupt the process goes on to terminate, and from the raise on
\* it neither serves nor answers a call; whenever the exception derives from
\* Exception, the process terminates with the error logged last.
C8_StartupFailureTerminates ==
    /\ (exc.class \notin {"None", "KeyboardInterrupt"}) ~> (pc = "terminated")
    /\ (exc.class \in ExceptionClasses) ~> (pc = "terminated" /\ ErrorLogged)
    /\ [][(pc \in {"except_Exception", "terminated"}) =>
             (pc' \in {"except_Exception", "terminated"} /\ replies' = replies)]_vars

\* The bind failed at start-up: the process has terminated with the starting
\* record and the error record logged, having served nothing.
C8_Witness ==
    /\ pc = "terminated"
    /\ exc = BindFailure
    /\ Len(log) = 2
    /\ ErrorLogged
    /\ replies = {}

====
